---- MODULE Spec2Model ----
(***************************************************************************)
(* A model of matched_map/MatchedMap.py: the MatchedMap class, its         *)
(* constructor and validation, set_forbidden_matches, generate_matched_map *)
(* with the recursive search __recursive_mm_gen, and get_last_map.         *)
(*                                                                         *)
(* A Python str is a TLA+ string; the empty string "" is the value the     *)
(* search gives a name that has no match yet.  An element of names_list    *)
(* is a record [is_str, text]: text is what str() makes of it, is_str      *)
(* tells a str from another type (the int 1 and the str '1' have the same  *)
(* text and are different elements).  A dict whose iteration order the     *)
(* code depends on (mandatory_matches, the working map of the search) is a *)
(* sequence of <<key, value>> pairs in insertion order; a dict that is     *)
(* only looked up (forbidden matches, the returned map, whose order        *)
(* generate_matched_map shuffles) is a function from its keys.             *)
(***************************************************************************)
EXTENDS Naturals, Sequences, FiniteSets, TLC

\* ------------------------------------------------------------------ bounds
\* Longest names_list given to the constructor.
MaxNames == 4
\* Most entries of the mandatory_matches given to the constructor.
MaxMandatory == 1
\* Most entries of a forbidden_dict written by the caller.
MaxForbidden == 1
\* Most calls made on one matcher after its construction.
MaxCalls == 3
\* Most searches run on one configured matcher.
MaxSearches == 1

\* The names are the strings of numbers, so that a number and its string are
\* two elements with one str().
LabelPool == <<"1", "2", "3", "4", "5", "6">>

\* The strings the caller draws names from.
Labels == {LabelPool[i] : i \in 1..MaxNames}

\* A string that is never in names_list.
Stranger == "99"

\* The elements names_list may hold: every label as a str, and the first
\* label also as the int whose str() is that label.
RawNames ==
    {[is_str |-> TRUE, text |-> l] : l \in Labels}
        \cup {[is_str |-> FALSE, text |-> LabelPool[1]]}

\* ------------------------------------------------------------- dict helpers
EmptyDict == << >>

SeqRange(s) == {s[i] : i \in 1..Len(s)}

DictKeys(d) == {d[i][1] : i \in 1..Len(d)}

DictHas(d, k) == k \in DictKeys(d)

DictGet(d, k) == d[CHOOSE i \in 1..Len(d) : d[i][1] = k][2]

\* d[k] = v: a present key keeps its place, a new key goes last.
DictSet(d, k, v) ==
    IF DictHas(d, k)
    THEN [i \in 1..Len(d) |-> IF d[i][1] = k THEN <<k, v>> ELSE d[i]]
    ELSE Append(d, <<k, v>>)

\* The dict as a set of pairs, its order forgotten.
DictItems(d) == [k \in DictKeys(d) |-> DictGet(d, k)]

\* list.count(x)
Count(s, x) == Cardinality({i \in 1..Len(s) : s[i] = x})

\* list.remove(x): drops the first occurrence of x.
ListRemove(s, x) ==
    LET i == CHOOSE j \in 1..Len(s) : s[j] = x /\ \A h \in 1..(j - 1) : s[h] # x
    IN  [h \in 1..(Len(s) - 1) |-> IF h < i THEN s[h] ELSE s[h + 1]]

Permutations_(s) ==
    {t \in [1..Len(s) -> SeqRange(s)] : \A x \in SeqRange(s) : Count(t, x) = Count(s, x)}

\* str(n)
Str(n) == n.text

AsStr(l) == [is_str |-> TRUE, text |-> l]

EmptyMap == [k \in {} |-> ""]

\* ------------------------------------------------------------------- state
VARIABLES
    pc,                     \* "new": __init__ has set the fields and has yet
                            \* to validate; "ready": constructed; "failed":
                            \* the constructor raised
    names_list,             \* self.names_list
    names,                  \* self.names
    mandatory_matches,      \* self.mandatory_matches
    match_to_self,          \* self.match_to_self
    match_to_reciprocal,    \* self.match_to_reciprocal
    randomize_name_order,   \* self.randomize_name_order
    forbidden_matches,      \* self.__forbidden_matches
    last_map,               \* self.__last_map
    ret,                    \* how the caller's last statement ended: what
                            \* it returned or the ValueError it raised
    search,                 \* the calls of __recursive_mm_gen made by the
                            \* last generate_matched_map, in call order
    calls                   \* how many calls the caller has made

vars == <<pc, names_list, names, mandatory_matches, match_to_self,
          match_to_reciprocal, randomize_name_order, forbidden_matches,
          last_map, ret, search, calls>>

flags == <<match_to_self, match_to_reciprocal, randomize_name_order>>

\* ------------------------------------------------------------ call outcomes
Returned(op, value) ==
    [op |-> op, status |-> "returned", msg |-> "", name |-> "", value |-> value]

Raised(op, msg, name) ==
    [op |-> op, status |-> "raised", msg |-> msg, name |-> name, value |-> EmptyMap]

NoCall == [op |-> "", status |-> "", msg |-> "", name |-> "", value |-> EmptyMap]

\* ------------------------------------------------------------------- inputs
\* The names_list arguments: every list of at most MaxNames elements.
NamesListInputs == UNION {[1..n -> RawNames] : n \in 0..MaxNames}

\* The lists of unique str names.  The code only ever asks whether two names
\* are equal, so which strings a list holds does not matter, and its order
\* matters only against the keys of mandatory_matches and forbidden_dict,
\* which range over all names: one list of each length stands for all.
UniqueNamesLists == {[i \in 1..n |-> AsStr(LabelPool[i])] : n \in 1..MaxNames}

\* The mandatory_matches arguments for the names S: dicts of at most
\* MaxMandatory entries, a name to a name.
MandatoryInputs(S) ==
    UNION {{d \in [1..n -> S \X S] :
                \A i, j \in 1..n : d[i][1] = d[j][1] => i = j} : n \in 0..MaxMandatory}

\* The keys and values a caller puts in a forbidden_dict: names, a string
\* that is no name, and a value that is no str.
ForbiddenAtoms ==
    {AsStr(l) : l \in Labels \cup {Stranger}}
        \cup {[is_str |-> FALSE, text |-> LabelPool[1]]}

\* The forbidden_dict arguments: dicts of at most MaxForbidden entries, and
\* the map get_last_map() returns.
ForbiddenInputs ==
    UNION {[S -> ForbiddenAtoms] :
                S \in {T \in SUBSET ForbiddenAtoms : Cardinality(T) <= MaxForbidden}}
        \cup {[k \in {AsStr(l) : l \in DOMAIN last_map} |-> AsStr(last_map[k.text])]}

\* --------------------------------------------------------------- __init__
\* MatchedMap.__init__, lines 28-38: the fields before __validate_setup.
NewMatchedMap(names_list_arg, mandatory_matches_arg) ==
    /\ pc = "new"
    /\ names_list = names_list_arg
    /\ names = << >>
    /\ mandatory_matches = mandatory_matches_arg
    /\ match_to_self = FALSE
    /\ match_to_reciprocal = FALSE
    /\ randomize_name_order = FALSE
    /\ forbidden_matches = EmptyMap
    /\ last_map = EmptyMap
    /\ ret = NoCall
    /\ search = << >>
    /\ calls = 0

\* A matcher under construction, for a list of unique names.
Init ==
    \E nl \in UniqueNamesLists :
        \E mm \in MandatoryInputs({Str(n) : n \in SeqRange(nl)}) : NewMatchedMap(nl, mm)

\* A matcher under construction, for any list.
InitAnyList ==
    \E nl \in NamesListInputs :
        \E mm \in MandatoryInputs({Str(n) : n \in SeqRange(nl)}) : NewMatchedMap(nl, mm)

\* The names that occur more than once in names_list.
duplicate_names == {n \in SeqRange(names_list) : Count(names_list, n) > 1}

\* self.names = [str(n) for n in self.names_list]
NormalizedNames == [i \in 1..Len(names_list) |-> Str(names_list[i])]

\* MatchedMap.__validate_setup, called last by __init__.
validate_setup ==
    /\ pc = "new"
    /\ IF names_list = << >>
       THEN /\ ret' = Raised("init", "Provide a list of strings of names", "")
            /\ pc' = "failed"
            /\ UNCHANGED names
       ELSE IF duplicate_names # {}
       THEN /\ \E n \in duplicate_names :
                    ret' = Raised("init", "Duplicate entry in names_list", Str(n))
            /\ pc' = "failed"
            /\ UNCHANGED names
       ELSE /\ names' = NormalizedNames
            /\ pc' = "ready"
            /\ ret' = Returned("init", EmptyMap)
    /\ UNCHANGED <<names_list, mandatory_matches, flags, forbidden_matches,
                   last_map, search, calls>>

\* ------------------------------------------------------------ the attributes
\* mapper.match_to_self = b
SetMatchToSelf(b) ==
    /\ pc = "ready"
    /\ match_to_self' = b
    /\ ret' = Returned("setattr", EmptyMap)
    /\ UNCHANGED <<pc, names_list, names, mandatory_matches, match_to_reciprocal,
                   randomize_name_order, forbidden_matches, last_map, search>>

\* mapper.match_to_reciprocal = b
SetMatchToReciprocal(b) ==
    /\ pc = "ready"
    /\ match_to_reciprocal' = b
    /\ ret' = Returned("setattr", EmptyMap)
    /\ UNCHANGED <<pc, names_list, names, mandatory_matches, match_to_self,
                   randomize_name_order, forbidden_matches, last_map, search>>

\* mapper.randomize_name_order = b
SetRandomizeNameOrder(b) ==
    /\ pc = "ready"
    /\ randomize_name_order' = b
    /\ ret' = Returned("setattr", EmptyMap)
    /\ UNCHANGED <<pc, names_list, names, mandatory_matches, match_to_self,
                   match_to_reciprocal, forbidden_matches, last_map, search>>

\* ---------------------------------------------------- set_forbidden_matches
\* k in self.names, for a key or value k of a forbidden_dict
InNames(k) == k.is_str /\ k.text \in SeqRange(names)

\* The entries of forbidden_dict at which the loop raises.  Line 118.
InvalidName(forbidden_dict, k) == ~k.is_str \/ ~forbidden_dict[k].is_str

\* Line 124 with the test of the key alone.
UnrecognizedKeyOnly(forbidden_dict, k) == ~InNames(k)

\* Line 124.
UnrecognizedName(forbidden_dict, k) == ~InNames(k) \/ ~InNames(forbidden_dict[k])

\* What self.__forbidden_matches is after set_forbidden_matches(forbidden_dict)
\* returned.
StoredForbidden(forbidden_dict) ==
    [l \in {k.text : k \in DOMAIN forbidden_dict} |-> forbidden_dict[AsStr(l)].text]

\* MatchedMap.set_forbidden_matches: the loop raises at the first entry, in
\* the dict's order, that is no str or no name; the order is the caller's.
set_forbidden_matches(forbidden_dict) ==
    /\ pc = "ready"
    /\ LET bad == {k \in DOMAIN forbidden_dict :
                        InvalidName(forbidden_dict, k) \/ UnrecognizedName(forbidden_dict, k)}
       IN  IF bad # {}
           THEN /\ \E k \in bad :
                    ret' = IF InvalidName(forbidden_dict, k)
                           THEN Raised("set_forbidden_matches",
                                       "Invalid name (should be str)",
                                       IF ~k.is_str THEN k.text ELSE forbidden_dict[k].text)
                           ELSE Raised("set_forbidden_matches", "Unrecognized name",
                                       IF ~InNames(k) THEN k.text ELSE forbidden_dict[k].text)
                /\ UNCHANGED forbidden_matches
           ELSE /\ forbidden_matches' = StoredForbidden(forbidden_dict)
                /\ ret' = Returned("set_forbidden_matches", EmptyMap)
    /\ UNCHANGED <<pc, names_list, names, mandatory_matches, flags, last_map, search>>

\* ------------------------------------------------------------- get_last_map
\* A get_last_map that returns the other private dict.
get_last_map_of_forbidden ==
    /\ pc = "ready"
    /\ ret' = Returned("get_last_map", forbidden_matches)
    /\ UNCHANGED <<pc, names_list, names, mandatory_matches, flags,
                   forbidden_matches, last_map, search>>

\* MatchedMap.get_last_map
get_last_map ==
    /\ pc = "ready"
    /\ ret' = Returned("get_last_map", last_map)
    /\ UNCHANGED <<pc, names_list, names, mandatory_matches, flags,
                   forbidden_matches, last_map, search>>

\* ------------------------------------------------------- __recursive_mm_gen
\* Lines 84-86: every name that is no key of current_mm yet becomes one, with
\* no match; the dict is changed in place.
RECURSIVE FillMissing(_, _)
FillMissing(nms, current_mm) ==
    IF nms = << >>
    THEN current_mm
    ELSE FillMissing(Tail(nms),
                     IF DictHas(current_mm, Head(nms))
                     THEN current_mm
                     ELSE DictSet(current_mm, Head(nms), ""))

\* A search that takes no key for matched.
HasMatchNever(current_mm, i) == FALSE

\* Line 89: key_name has a match already.
HasMatch(current_mm, i) == current_mm[i][2] # ""

\* The tests with the reciprocal one made whatever match_to_reciprocal is.
SkippedReciprocalAlways(key_name, list_name, current_mm) ==
    \/ list_name = key_name /\ ~match_to_self
    \/ DictGet(current_mm, list_name) = key_name
    \/ key_name \in DOMAIN forbidden_matches /\ forbidden_matches[key_name] = list_name

\* Lines 92-98: the three tests that pass over the candidate list_name.
Skipped(key_name, list_name, current_mm) ==
    \/ list_name = key_name /\ ~match_to_self
    \/ DictGet(current_mm, list_name) = key_name /\ ~match_to_reciprocal
    \/ key_name \in DOMAIN forbidden_matches /\ forbidden_matches[key_name] = list_name

\* One call of __recursive_mm_gen as the search log keeps it: its names and
\* its current_mm once lines 84-86 have run.
Frame(nms, current_mm) == [names |-> nms, current_mm |-> current_mm]

\* __recursive_mm_gen(names, current_mm): map is what the call returns, log
\* is the log given with the frames of this call and of the calls below it.
\* for_key_name is the loop of line 88 from the i-th key on, for_list_name
\* the loop of line 91 from the j-th name on.
RECURSIVE recursive_mm_gen(_, _, _), for_key_name(_, _, _, _), for_list_name(_, _, _, _, _)
recursive_mm_gen(nms, current_mm, log) ==
    IF nms = << >>
    THEN [map |-> current_mm, log |-> Append(log, Frame(nms, current_mm))]
    ELSE LET filled == FillMissing(nms, current_mm)
         IN  for_key_name(nms, filled, 1, Append(log, Frame(nms, filled)))

for_key_name(nms, current_mm, i, log) ==
    IF i > Len(current_mm)
    THEN [map |-> current_mm, log |-> log]
    ELSE IF HasMatch(current_mm, i)
    THEN for_key_name(nms, current_mm, i + 1, log)
    ELSE for_list_name(nms, current_mm, i, 1, log)

for_list_name(nms, current_mm, i, j, log) ==
    IF j > Len(nms)
    THEN for_key_name(nms, current_mm, i + 1, log)
    ELSE LET key_name == current_mm[i][1]
             list_name == nms[j]
         IN  IF Skipped(key_name, list_name, current_mm)
             THEN for_list_name(nms, current_mm, i, j + 1, log)
             ELSE LET new_mm == DictSet(current_mm, key_name, list_name)
                      new_names == ListRemove(nms, list_name)
                      new_map == recursive_mm_gen(new_names, new_mm, log)
                  IN  IF new_map.map # EmptyDict
                      THEN new_map
                      ELSE for_list_name(nms, current_mm, i, j + 1, new_map.log)

\* ----------------------------------------------------- generate_matched_map
\* The parity test turned around.
OddCountOfEven == match_to_reciprocal /\ Len(names) % 2 = 0

\* Line 138: reciprocal matching with an odd number of names.
OddCount == match_to_reciprocal /\ Len(names) % 2 # 0

\* Lines 141-144: random.shuffle(self.names) leaves any order of the names.
ShuffledNames == IF randomize_name_order THEN Permutations_(names) ELSE {names}

\* Lines 152-156: the map stored and returned; the shuffle of its items
\* changes their order only, which a function does not have.
StoredMap(matched_map) == DictItems(matched_map)

\* MatchedMap.generate_matched_map.  The top call of __recursive_mm_gen is
\* given self.mandatory_matches itself, so lines 84-86 change that dict.
generate_matched_map ==
    /\ pc = "ready"
    /\ IF names = << >>
       THEN /\ ret' = Returned("generate_matched_map", EmptyMap)
            /\ search' = << >>
            /\ UNCHANGED <<names, mandatory_matches, last_map>>
       ELSE IF OddCount
       THEN /\ ret' = Raised("generate_matched_map",
                             "Number of names must be even for reciprocal matching", "")
            /\ search' = << >>
            /\ UNCHANGED <<names, mandatory_matches, last_map>>
       ELSE \E shuffled \in ShuffledNames :
                LET matched_map == recursive_mm_gen(shuffled, mandatory_matches, << >>)
                IN  /\ names' = shuffled
                    /\ mandatory_matches' = FillMissing(shuffled, mandatory_matches)
                    /\ search' = matched_map.log
                    /\ IF matched_map.map = EmptyDict
                       THEN /\ ret' = Raised("generate_matched_map", "Cannot generate map", "")
                            /\ UNCHANGED last_map
                       ELSE /\ last_map' = StoredMap(matched_map.map)
                            /\ ret' = Returned("generate_matched_map",
                                               StoredMap(matched_map.map))
    /\ UNCHANGED <<pc, names_list, flags, forbidden_matches>>

\* -------------------------------------------------------------------- Next
\* One more call by the caller, who makes at most MaxCalls.
Call(op) == calls < MaxCalls /\ op /\ calls' = calls + 1

Next ==
    \/ validate_setup
    \/ \E b \in BOOLEAN : Call(SetMatchToSelf(b))
    \/ \E b \in BOOLEAN : Call(SetMatchToReciprocal(b))
    \/ \E b \in BOOLEAN : Call(SetRandomizeNameOrder(b))
    \/ \E forbidden_dict \in ForbiddenInputs : Call(set_forbidden_matches(forbidden_dict))
    \/ Call(get_last_map)
    \/ Call(generate_matched_map)

\* A matcher from its construction on, under any calls.
Spec == Init /\ [][Next]_vars

\* The constructor alone, on any names_list.
SpecInit == InitAnyList /\ [][validate_setup]_vars

\* ------------------------------------------------- the search as a function
\* The forbidden matches a matcher may hold: set_forbidden_matches stored
\* them, so every key and value is a name.
HeldForbidden(nms) ==
    UNION {[S -> SeqRange(nms)] :
                S \in {T \in SUBSET SeqRange(nms) : Cardinality(T) <= MaxForbidden}}

\* A constructed matcher on which no search has run: the caller has set the
\* flags and the forbidden matches at will.
InitConfigured ==
    \E nl \in UniqueNamesLists :
      \E mm \in MandatoryInputs({Str(n) : n \in SeqRange(nl)}) :
        /\ pc = "ready"
        /\ names_list = nl
        /\ names = [i \in 1..Len(nl) |-> Str(nl[i])]
        /\ mandatory_matches = mm
        /\ match_to_self \in BOOLEAN
        /\ match_to_reciprocal \in BOOLEAN
        /\ randomize_name_order \in BOOLEAN
        /\ forbidden_matches \in HeldForbidden(names)
        /\ last_map = EmptyMap
        /\ ret = IF forbidden_matches = EmptyMap
                 THEN Returned("init", EmptyMap)
                 ELSE Returned("set_forbidden_matches", EmptyMap)
        /\ search = << >>
        /\ calls = 0

NextSearch == calls < MaxSearches /\ generate_matched_map /\ calls' = calls + 1

\* generate_matched_map on every configured matcher.
SpecSearch == InitConfigured /\ [][NextSearch]_vars

\* ------------------------------------------------------------------ claims
\* generate_matched_map was the last call and returned a map.
GenerateReturned == ret.op = "generate_matched_map" /\ ret.status = "returned"

NameSet == SeqRange(names)

MapValues(m) == {m[k] : k \in DOMAIN m}

\* The keys of mandatory_matches whose match is not the empty string: the
\* entries the caller supplied (the search only ever adds empty ones).
MandatoryKeys ==
    {mandatory_matches[i][1] : i \in {j \in 1..Len(mandatory_matches) :
                                            mandatory_matches[j][2] # ""}}

\* The keys of mandatory_matches, in the dict's order.
KeyOrder == [i \in 1..Len(mandatory_matches) |-> mandatory_matches[i][1]]

DefaultFlags == ~match_to_self /\ ~match_to_reciprocal /\ ~randomize_name_order

\* Every name is a key and a value, no name matches itself and no two names
\* match each other.
Derangement(m) ==
    /\ DOMAIN m = NameSet
    /\ MapValues(m) = NameSet
    /\ \A k \in DOMAIN m : m[k] # k /\ m[m[k]] # k

\* Every name is a key and a value, and every name is matched by its match.
MutualPairing(m) ==
    /\ DOMAIN m = NameSet
    /\ MapValues(m) = NameSet
    /\ \A k \in DOMAIN m : m[m[k]] = k

\* C1: with the three flags false, no forbidden match and no mandatory match,
\* the map generate_matched_map returns for a list of unique names has every
\* name as a key and as a value, result[k] # k and result[result[k]] # k.
C1_ReturnsDerangement ==
    (GenerateReturned /\ DefaultFlags /\ forbidden_matches = EmptyMap
        /\ MandatoryKeys = {})
        => Derangement(ret.value)

C3_NoUnmatchedName ==
    GenerateReturned => \A k \in DOMAIN ret.value : ret.value[k] # ""

\* C4: once set_forbidden_matches(F) succeeded with F the map an earlier
\* generate_matched_map returned, a map generate_matched_map returns has
\* result[k] # F[k] for every key k.
C4_NoForbiddenPair ==
    [][(ret'.op = "generate_matched_map" /\ ret'.status = "returned"
            /\ forbidden_matches # EmptyMap /\ forbidden_matches = last_map)
        => \A k \in DOMAIN ret'.value \cap DOMAIN forbidden_matches :
                ret'.value[k] # forbidden_matches[k]]_vars

\* x is a str and one of the names.
IsName(x) == x.is_str /\ x.text \in NameSet

\* C5: set_forbidden_matches(pairs) raises whenever a key or a value of pairs
\* is not one of the names, and then leaves the stored forbidden matches as
\* they were; a call whose entries are all names stores exactly pairs.
C5_InvalidForbiddenRejected ==
    [][\A pairs \in IF ret'.op = "set_forbidden_matches" THEN ForbiddenInputs ELSE {} :
        set_forbidden_matches(pairs) =>
            IF \E k \in DOMAIN pairs : ~IsName(k) \/ ~IsName(pairs[k])
            THEN /\ ret'.status = "raised"
                 /\ forbidden_matches' = forbidden_matches
            ELSE /\ ret'.status = "returned"
                 /\ DOMAIN forbidden_matches' = {k.text : k \in DOMAIN pairs}
                 /\ \A k \in DOMAIN pairs : forbidden_matches'[k.text] = pairs[k].text]_vars

\* C5's case: a call was refused while forbidden matches were stored, and
\* they are still stored.
C5_Witness ==
    /\ ret.op = "set_forbidden_matches" /\ ret.status = "raised"
    /\ ret.msg = "Unrecognized name"
    /\ forbidden_matches # EmptyMap

\* C6: with match_to_reciprocal set and an odd number of names,
\* generate_matched_map raises the even-number error whatever the other
\* flags, the forbidden and the mandatory matches are, and has not shuffled
\* the names, run the search or stored a map.
C6_OddCountRaises ==
    [][(ret'.op = "generate_matched_map" /\ match_to_reciprocal /\ Len(names) % 2 = 1)
        => /\ ret' = Raised("generate_matched_map",
                            "Number of names must be even for reciprocal matching", "")
           /\ search' = << >>
           /\ UNCHANGED <<names, mandatory_matches, last_map>>]_vars

\* C6's case: the error was raised on a matcher with three names, a
\* forbidden match, a mandatory match and the other two flags set.
C6_Witness ==
    /\ ret.op = "generate_matched_map" /\ ret.status = "raised"
    /\ ret.msg = "Number of names must be even for reciprocal matching"
    /\ Len(names) = 3 /\ match_to_self /\ randomize_name_order
    /\ forbidden_matches # EmptyMap /\ MandatoryKeys # {}

\* C7: a names_list in which an element occurs twice is refused with the
\* duplicate error naming such an element, and the names of a constructed
\* matcher, the str() of the elements, hold no name twice.
C7_NoDuplicateNames ==
    /\ (pc # "new" /\ names_list # << >> /\ duplicate_names # {})
        => /\ pc = "failed"
           /\ ret.msg = "Duplicate entry in names_list"
           /\ \E n \in duplicate_names : ret.name = Str(n)
    /\ pc = "ready" => \A i, j \in 1..Len(names) : names[i] = names[j] => i = j

\* C8: the stored last map is empty until a generate_matched_map returns, is
\* the map the latest successful generate_matched_map returned, is what
\* get_last_map returns, and is left alone by a generate_matched_map that
\* raises and by every set_forbidden_matches.
C8_LastMapIsLastSuccess ==
    [][/\ calls = 0 => last_map = EmptyMap
       /\ (ret'.op = "generate_matched_map" /\ ret'.status = "returned")
            => last_map' = ret'.value
       /\ (ret'.op = "generate_matched_map" /\ ret'.status = "raised")
            => last_map' = last_map
       /\ ret'.op \in {"set_forbidden_matches", "setattr", "init"}
            => last_map' = last_map
       /\ ret'.op = "get_last_map"
            => (ret'.value = last_map /\ last_map' = last_map)]_vars

\* C8's case: get_last_map returned the map of an earlier successful
\* generate_matched_map while other forbidden matches were stored.
C8_Witness ==
    /\ ret.op = "get_last_map" /\ ret.value # EmptyMap /\ ret.value = last_map
    /\ forbidden_matches # EmptyMap /\ forbidden_matches # last_map

\* C9: the mandatory matches given to the constructor (the entries of
\* mandatory_matches with a match) stay as they are, and every map
\* generate_matched_map returns holds each of them, under every flag
\* setting and every stored forbidden match.
C9_MandatoryKept ==
    [][/\ \A i \in 1..Len(mandatory_matches) :
                mandatory_matches[i][2] # ""
                    => (i <= Len(mandatory_matches')
                            /\ mandatory_matches'[i] = mandatory_matches[i])
       /\ \A i \in 1..Len(mandatory_matches') :
                mandatory_matches'[i][2] # ""
                    => (i <= Len(mandatory_matches)
                            /\ mandatory_matches[i] = mandatory_matches'[i])
       /\ (ret'.op = "generate_matched_map" /\ ret'.status = "returned")
            => \A i \in 1..Len(mandatory_matches) :
                    mandatory_matches[i][2] # ""
                        => /\ mandatory_matches[i][1] \in DOMAIN ret'.value
                           /\ ret'.value[mandatory_matches[i][1]] = mandatory_matches[i][2]]_vars

\* C9's case: a map came back from a search that matched other names, on a
\* matcher with a mandatory match for one of its names, that very match
\* forbidden, and self and reciprocal matches allowed.
C9_Witness ==
    /\ GenerateReturned /\ Len(names) = 4
    /\ match_to_self /\ match_to_reciprocal
    /\ \E k \in MandatoryKeys :
            /\ k \in NameSet
            /\ k \in DOMAIN forbidden_matches
            /\ forbidden_matches[k] = ret.value[k]
            /\ \E h \in NameSet \ {k} : ret.value[h] # ""

\* The names that are a match in the working map current_mm.
UsedTargets(current_mm) == {current_mm[i][2] : i \in 1..Len(current_mm)} \ {""}

\* C10: in every call of the search, the names that are a match in the
\* working map and the names still in the working list are disjoint and
\* together are all the names, and no name is the match of two keys, in a
\* working map or in the map returned.
C10_TargetsPartition ==
    /\ \A n \in 1..Len(search) :
            LET current_mm == search[n].current_mm
            IN  /\ UsedTargets(current_mm) \cap SeqRange(search[n].names) = {}
                /\ UsedTargets(current_mm) \cup SeqRange(search[n].names) = NameSet
                /\ \A i, j \in 1..Len(current_mm) :
                        (current_mm[i][2] # "" /\ current_mm[i][2] = current_mm[j][2])
                            => i = j
    /\ GenerateReturned
        => \A k, h \in DOMAIN ret.value :
                (ret.value[k] # "" /\ ret.value[k] = ret.value[h]) => k = h

\* The complete assignments the matcher's constraints allow: every name has
\* a name for its match, no name is the match of two, the mandatory matches
\* are kept, and every other match passes the tests of the search (no self
\* match unless match_to_self, no two names matched to each other unless
\* match_to_reciprocal, no forbidden match).
CompleteAssignments ==
    {m \in [NameSet -> NameSet] :
        /\ \A k, h \in NameSet : m[k] = m[h] => k = h
        /\ \A i \in 1..Len(mandatory_matches) :
                (mandatory_matches[i][2] # "" /\ mandatory_matches[i][1] \in NameSet)
                    => m[mandatory_matches[i][1]] = mandatory_matches[i][2]
        /\ \A k \in NameSet \ MandatoryKeys :
                /\ match_to_self \/ m[k] # k
                /\ match_to_reciprocal \/ m[k] = k \/ m[m[k]] # k
                /\ ~(k \in DOMAIN forbidden_matches /\ forbidden_matches[k] = m[k])}

\* C11: the search backtracks, so whenever the constraints allow a complete
\* assignment, generate_matched_map returns a map in which every name has a
\* match, in whatever order the names are.
C11_FindsExistingAssignment ==
    (ret.op = "generate_matched_map" /\ ~(match_to_reciprocal /\ Len(names) % 2 = 1)
        /\ CompleteAssignments # {})
        => /\ ret.status = "returned"
           /\ NameSet \subseteq DOMAIN ret.value
           /\ \A k \in NameSet : ret.value[k] # ""

====
